---------------------------- MODULE Spec2Model ----------------------------
(***************************************************************************)
(* Model of the screenplay generator: the LangGraph pipeline built by      *)
(* ScreenplayWorkflow.build_workflow (src/workflow.py), its nine nodes,    *)
(* the text formatter (src/utils/formatter.py), the PDF story builder     *)
(* (src/utils/pdf_exporter.py) and the graph exported by src/agent.py.     *)
(*                                                                         *)
(* A Python str is a sequence of one-character strings, so that split,     *)
(* strip, upper, replace and the word wrap are computed character by       *)
(* character.  A Python dict is a function whose DOMAIN is its key set.    *)
(* An Optional value is <<>> (None) or <<v>>.                              *)
(*                                                                         *)
(* Python evaluates an argument once, before the call.  An operator that   *)
(* reads an argument several times therefore binds it first, as in         *)
(* The({ f(v) : v \in {arg} }), which is f(arg) with arg evaluated once.   *)
(***************************************************************************)
EXTENDS Integers, Sequences, FiniteSets, TLC

VARIABLES pc, state, executed, calls, outcomes, fsError, arg, result, applied

vars == <<pc, state, executed, calls, outcomes, fsError, arg, result, applied>>

pipelineVars == <<pc, state, executed, calls, outcomes, fsError>>

harnessVars == <<arg, result, applied>>

(***************************************************************************)
(* Bounds of the model.                                                    *)
(***************************************************************************)
MaxChars == 1

MaxScenes == 2

MaxWords == 3

MaxExportScenes == 6

MaxHeadingLen == 3

(***************************************************************************)
(* Python str primitives.                                                  *)
(***************************************************************************)
None == <<>>

\* the element of a singleton set
The(S) == CHOOSE r \in S : TRUE

Some(v) == <<v>>

Whitespace == {" ", "\n", "\t"}

LowerLetters == <<"a","b","c","d","e","f","g","h","i","j","k","l","m",
                  "n","o","p","q","r","s","t","u","v","w","x","y","z">>

UpperLetters == <<"A","B","C","D","E","F","G","H","I","J","K","L","M",
                  "N","O","P","Q","R","S","T","U","V","W","X","Y","Z">>

UpperChar(c) ==
    IF \E i \in 1..26 : LowerLetters[i] = c
    THEN UpperLetters[CHOOSE i \in 1..26 : LowerLetters[i] = c]
    ELSE c

LowerChar(c) ==
    IF \E i \in 1..26 : UpperLetters[i] = c
    THEN LowerLetters[CHOOSE i \in 1..26 : UpperLetters[i] = c]
    ELSE c

\* str.upper()
Upper(t) == The({ [i \in 1..Len(v) |-> UpperChar(v[i])] : v \in {t} })

\* str.lower()
Lower(t) == The({ [i \in 1..Len(v) |-> LowerChar(v[i])] : v \in {t} })

RECURSIVE JoinFrom(_, _, _)
JoinFrom(parts, sep, i) ==
    IF i > Len(parts) THEN <<>>
    ELSE IF i = Len(parts) THEN parts[i]
    ELSE parts[i] \o sep \o JoinFrom(parts, sep, i + 1)

\* sep.join(parts)
Join(parts, sep) == The({ JoinFrom(v, sep, 1) : v \in {parts} })

\* "".join(parts)
Concat(parts) == Join(parts, <<>>)

\* c * n
Repeat(c, n) == [i \in 1..n |-> c]

\* str.replace(c, by) for a one-character pattern c
Replace(t, c, by) ==
    The({ Concat([i \in 1..Len(v) |-> IF v[i] = c THEN by ELSE <<v[i]>>]) : v \in {t} })

\* the positions where a maximal run of non-whitespace starts
WordStarts(v) ==
    {i \in 1..Len(v) : v[i] \notin Whitespace /\ (i = 1 \/ v[i - 1] \in Whitespace)}

\* the last position of the run that starts at i
WordEnd(v, i) ==
    CHOOSE j \in i..Len(v) :
        /\ \A k \in i..j : v[k] \notin Whitespace
        /\ (j = Len(v) \/ v[j + 1] \in Whitespace)

\* the runs, in the order of their positions
SplitWords(v) ==
    LET starts == WordStarts(v)
        nth(k) == CHOOSE i \in starts : Cardinality({j \in starts : j <= i}) = k
    IN  [k \in 1..Cardinality(starts) |-> SubSeq(v, nth(k), WordEnd(v, nth(k)))]

\* str.split() with no argument: the maximal runs of non-whitespace
Split(t) == The({ SplitWords(v) : v \in {t} })

RECURSIVE LStrip(_)
LStrip(t) ==
    IF t # <<>> /\ Head(t) \in Whitespace THEN LStrip(Tail(t)) ELSE t

RECURSIVE RStrip(_)
RStrip(t) ==
    IF t # <<>> /\ t[Len(t)] \in Whitespace
    THEN RStrip(SubSeq(t, 1, Len(t) - 1))
    ELSE t

\* str.strip()
Strip(t) == The({ LStrip(RStrip(v)) : v \in {t} })

\* needle in t
Contains(t, needle) ==
    \E v \in {t} : \E i \in 1..(Len(v) - Len(needle) + 1) :
        SubSeq(v, i, i + Len(needle) - 1) = needle

\* t.startswith(p)
StartsWith(t, p) == Len(t) >= Len(p) /\ SubSeq(t, 1, Len(p)) = p

RECURSIVE Digits(_)
Digits(n) ==
    IF n < 10 THEN <<<<"0","1","2","3","4","5","6","7","8","9">>[n + 1]>>
    ELSE Digits(n \div 10) \o Digits(n % 10)

\* str(n) for an int n
IntToText(n) == IF n < 0 THEN <<"-">> \o Digits(0 - n) ELSE Digits(n)

\* dict.get(key, default)
Get(d, key, default) == IF key \in DOMAIN d THEN d[key] ELSE default

(***************************************************************************)
(* ScreenplayFormatter (src/utils/formatter.py).                           *)
(***************************************************************************)
page_width == 60

dialogue_margin == 10

character_margin == 20

parenthetical_margin == 15

transition_margin == 45

max_dialogue_width == 35

\* Python truthiness of an Optional[str]: neither None nor ""
Truthy(opt) == opt # None /\ opt[1] # <<>>

RECURSIVE WrapLoop_no_final_flush(_, _, _, _, _)
\* mutant of WrapLoop: the line being filled when the words run out is lost
WrapLoop_no_final_flush(words, i, current_line, lines, width) ==
    IF i > Len(words)
    THEN lines
    ELSE IF Len(current_line) + Len(words[i]) + 1 <= width
         THEN WrapLoop_no_final_flush(words, i + 1, current_line \o words[i] \o <<" ">>,
                                      lines, width)
         ELSE WrapLoop_no_final_flush(words, i + 1, words[i] \o <<" ">>,
                                      Append(lines, Strip(current_line)), width)

RECURSIVE WrapLoop(_, _, _, _, _)
\* the for loop shared by format_action and format_dialogue_line;
\* current_line carries the trailing " " the code appends after each word
WrapLoop(words, i, current_line, lines, width) ==
    IF i > Len(words)
    THEN (IF current_line # <<>> THEN Append(lines, Strip(current_line)) ELSE lines)
    ELSE IF Len(current_line) + Len(words[i]) + 1 <= width
         THEN WrapLoop(words, i + 1, current_line \o words[i] \o <<" ">>, lines, width)
         ELSE WrapLoop(words, i + 1, words[i] \o <<" ">>,
                       Append(lines, Strip(current_line)), width)

\* the list `lines` format_action builds
action_lines(action) ==
    The({ WrapLoop(words, 1, <<>>, <<>>, page_width) : words \in {Split(action)} })

\* the list `lines` format_dialogue_line builds (before indentation)
dialogue_lines(line) ==
    The({ WrapLoop(words, 1, <<>>, <<>>, max_dialogue_width) : words \in {Split(line)} })

format_title_page(title, author) ==
    Repeat("\n", 20) \o Upper(title) \o <<"\n","\n","\n">>
      \o <<"W","r","i","t","t","e","n"," ","b","y","\n","\n">>
      \o author \o <<"\n">> \o Repeat("\n", 20)

\* mutant of format_scene_heading: the heading is not upper-cased
format_scene_heading_verbatim(heading) ==
    <<"\n","\n">> \o heading \o <<"\n","\n">>

format_scene_heading(heading) ==
    <<"\n","\n">> \o Upper(heading) \o <<"\n","\n">>

format_action(action) == Join(action_lines(action), <<"\n">>) \o <<"\n">>

format_character_name(character) ==
    <<"\n">> \o Repeat(" ", character_margin) \o Upper(character) \o <<"\n">>

format_parenthetical(parenthetical) ==
    Repeat(" ", parenthetical_margin)
      \o (IF StartsWith(parenthetical, <<"(">>)
          THEN parenthetical
          ELSE <<"(">> \o parenthetical \o <<")">>)
      \o <<"\n">>

format_dialogue_line(line) ==
    The({ Join([i \in 1..Len(lines) |-> Repeat(" ", dialogue_margin) \o lines[i]],
               <<"\n">>) \o <<"\n">> :
          lines \in {dialogue_lines(line)} })

format_transition(transition) ==
    IF transition = <<>> THEN <<>>
    ELSE <<"\n">> \o Repeat(" ", transition_margin) \o Upper(transition) \o <<"\n">>

\* one dialogue_block of the loop in format_scene
format_dialogue_block(dialogue_block) ==
    LET character == Get(dialogue_block, "character", <<>>)
        parenthetical == Get(dialogue_block, "parenthetical", Some(<<>>))
        line == Get(dialogue_block, "line", <<>>)
    IN  IF character # <<>> /\ line # <<>>
        THEN format_character_name(character)
               \o (IF Truthy(parenthetical)
                   THEN format_parenthetical(parenthetical[1]) ELSE <<>>)
               \o format_dialogue_line(line)
        ELSE <<>>

format_scene(scene) ==
    format_scene_heading(scene.heading)
      \o format_action(scene.action)
      \o Concat([i \in 1..Len(scene.dialogue) |->
                    format_dialogue_block(scene.dialogue[i])])
      \o (IF Truthy(scene.transition)
          THEN format_transition(scene.transition[1]) ELSE <<>>)

\* mutant of format_screenplay: the scenes are written last to first
format_screenplay_reversed(title, author, scenes) ==
    format_title_page(title, author)
      \o <<"\n">> \o Repeat("=", 60) \o <<"\n","\n">>
      \o <<"F","A","D","E"," ","I","N",":","\n">>
      \o Concat([i \in 1..Len(scenes) |-> format_scene(scenes[Len(scenes) + 1 - i])])
      \o <<"\n","\n","F","A","D","E"," ","O","U","T",".","\n","\n","T","H","E"," ","E","N","D">>

format_screenplay(title, author, scenes) ==
    format_title_page(title, author)
      \o <<"\n">> \o Repeat("=", 60) \o <<"\n","\n">>
      \o <<"F","A","D","E"," ","I","N",":","\n">>
      \o Concat([i \in 1..Len(scenes) |-> format_scene(scenes[i])])
      \o <<"\n","\n","F","A","D","E"," ","O","U","T",".","\n","\n","T","H","E"," ","E","N","D">>

(***************************************************************************)
(* ScreenplayPDFExporter (src/utils/pdf_exporter.py).  The story is the    *)
(* list of flowables handed to doc.build; Spacer heights are in tenths of  *)
(* an inch.                                                                *)
(***************************************************************************)
Paragraph(text, style) == [kind |-> "Paragraph", text |-> text, style |-> style]

Spacer(tenths) == [kind |-> "Spacer", height |-> tenths]

PageBreak == [kind |-> "PageBreak"]

Image(path) == [kind |-> "Image", path |-> path]

IsLetter(c) ==
    \E i \in 1..26 : LowerLetters[i] = c \/ UpperLetters[i] = c

\* str.title()
TitleCase(t) ==
    The({ [i \in 1..Len(v) |->
             IF i = 1 \/ ~IsLetter(v[i - 1]) THEN UpperChar(v[i]) ELSE LowerChar(v[i])] :
          v \in {t} })

create_title_page(title, author) ==
    << Spacer(25),
       Paragraph(Upper(title), "Title"),
       Spacer(3),
       Paragraph(<<"W","r","i","t","t","e","n"," ","b","y">>, "Author"),
       Spacer(1),
       Paragraph(author, "Author"),
       PageBreak >>

\* one iteration of the loop over characters in create_character_pages
character_page(character) ==
    << Paragraph(character.name, "CharacterName"), Spacer(1) >>
      \o (IF Truthy(character.image_path)
          THEN << Image(character.image_path[1]), Spacer(2) >> ELSE <<>>)
      \o (IF character.age # None /\ character.age[1] # 0
          THEN << Paragraph(<<"<","b",">","A","g","e",":","<","/","b",">"," ">> \o IntToText(character.age[1]), "CharacterInfo") >>
          ELSE <<>>)
      \o << Paragraph(<<"<","b",">","R","o","l","e",":","<","/","b",">"," ">> \o TitleCase(character.role), "CharacterInfo"),
            Spacer(1),
            Paragraph(<<"<","b",">","D","e","s","c","r","i","p","t","i","o","n",":","<","/","b",">">>, "CharacterInfo"),
            Paragraph(character.description, "CharacterInfo"),
            Spacer(1) >>
      \o (IF Truthy(character.arc)
          THEN << Paragraph(<<"<","b",">","C","h","a","r","a","c","t","e","r"," ","A","r","c",":","<","/","b",">">>, "CharacterInfo"),
                  Paragraph(character.arc[1], "CharacterInfo") >>
          ELSE <<>>)
      \o << PageBreak >>

create_character_pages(characters) ==
    << Paragraph(<<"C","H","A","R","A","C","T","E","R"," ","R","E","F","E","R","E","N","C","E">>, "Title"), Spacer(3), PageBreak >>
      \o Concat([i \in 1..Len(characters) |-> character_page(characters[i])])

\* the paragraphs of one dialogue_block in create_screenplay_pages
pdf_dialogue_block(dialogue_block) ==
    LET character == Get(dialogue_block, "character", <<>>)
        parenthetical == Get(dialogue_block, "parenthetical", Some(<<>>))
        line == Get(dialogue_block, "line", <<>>)
    IN  IF character # <<>> /\ line # <<>>
        THEN << Paragraph(Upper(character), "Character") >>
               \o (IF Truthy(parenthetical)
                   THEN << Paragraph(IF StartsWith(parenthetical[1], <<"(">>)
                                     THEN parenthetical[1]
                                     ELSE <<"(">> \o parenthetical[1] \o <<")">>,
                                     "Parenthetical") >>
                   ELSE <<>>)
               \o << Paragraph(line, "Dialogue") >>
        ELSE <<>>

\* the episode marker appended when the episode changes
episode_marker(current_episode) ==
    << Spacer(3),
       Paragraph(<<"<","b",">","E","P","I","S","O","D","E"," ">> \o IntToText(current_episode) \o <<"<","/","b",">">>, "SceneHeading"),
       Spacer(3) >>

\* what one scene appends after the marker decision
pdf_scene_block(scene) ==
    << Paragraph(IntToText(scene.scene_number) \o <<" "," "," "," ">>
                   \o Upper(scene.heading), "SceneHeading"),
       Paragraph(scene.action, "Action"),
       Spacer(1) >>
      \o Concat([i \in 1..Len(scene.dialogue) |-> pdf_dialogue_block(scene.dialogue[i])])
      \o (IF Truthy(scene.transition)
          THEN << Paragraph(Upper(scene.transition[1]), "Transition") >> ELSE <<>>)
      \o << Spacer(2) >>

\* mutant of EpisodeChanged: a marker for the first scene only
EpisodeChanged_first_only(scene, current_episode) == current_episode = None

\* scene.episode_number != current_episode, current_episode being None at first
EpisodeChanged(scene, current_episode) ==
    current_episode = None \/ current_episode[1] # scene.episode_number

RECURSIVE ScenePagesLoop(_, _, _, _)
ScenePagesLoop(scenes, i, current_episode, story) ==
    IF i > Len(scenes) THEN story
    ELSE IF EpisodeChanged(scenes[i], current_episode)
         THEN ScenePagesLoop(scenes, i + 1, Some(scenes[i].episode_number),
                             story \o episode_marker(scenes[i].episode_number)
                                   \o pdf_scene_block(scenes[i]))
         ELSE ScenePagesLoop(scenes, i + 1, current_episode,
                             story \o pdf_scene_block(scenes[i]))

create_screenplay_pages(scenes) ==
    ScenePagesLoop(scenes, 1, None,
                   << Paragraph(<<"F","A","D","E"," ","I","N",":">>, "SceneHeading"), Spacer(2) >>)
      \o << Spacer(2),
            Paragraph(<<"F","A","D","E"," ","O","U","T",".">>, "Transition"),
            Spacer(3),
            Paragraph(<<"T","H","E"," ","E","N","D">>, "Character") >>

\* the story export_pdf hands to doc.build
export_story(title, author, characters, scenes) ==
    create_title_page(title, author)
      \o (IF characters # <<>> THEN create_character_pages(characters) ELSE <<>>)
      \o create_screenplay_pages(scenes)

\* the path export_pdf returns: output_dir / f"{safe_title}_screenplay.pdf"
export_path(title) ==
    LET safe_title == Lower(Replace(Replace(title, " ", <<"_">>), ".", <<>>))
    IN  <<"g","e","n","e","r","a","t","e","d","_","s","c","r","e","e","n","p","l","a","y","s","/">>
          \o safe_title \o <<"_","s","c","r","e","e","n","p","l","a","y",".","p","d","f">>

(***************************************************************************)
(* What the external collaborators can answer.  A text-model call either   *)
(* raises (ok = FALSE) or returns a schema-conformant value; the image     *)
(* client fails, returns inline image data, or returns data whose file     *)
(* cannot be written.                                                      *)
(***************************************************************************)
Ideas == {"A retired detective returns for one last cold case"}

Failure == [ok |-> FALSE]

Success(resp) == [ok |-> TRUE, resp |-> resp]

Outcomes(responses) == {Failure} \cup {Success(r) : r \in responses}

LoglineResponses ==
    { [logline |-> <<"A"," ","c","o","p",","," ","a"," ","c","a","s","e","."," ","O","n","e"," ","l","a","s","t"," ","j","o","b",".">>,
       genre |-> "Thriller", tone |-> "Dark"],
      [logline |-> <<"G","o"," ","n","o","w",".">>,
       genre |-> "Comedy", tone |-> "Humorous"] }

OutlineResponses ==
    { [outline |-> "ACT 1 / ACT 2 / ACT 3", beat_sheet |-> "beat 1; beat 2",
       estimated_page_count |-> 90] }

CharacterPool ==
    { [name |-> <<"D","R","."," ","A","L">>, age |-> 40,
       role |-> <<"p","r","o","t","a","g","o","n","i","s","t">>,
       description |-> <<"C","a","l","m",".">>, arc |-> <<"G","r","o","w","s",".">>,
       image_prompt |-> <<"t","a","l","l"," ","m","a","n">>],
      [name |-> <<"B","o">>, age |-> 0,
       role |-> <<"s","u","p","p","o","r","t","i","n","g">>,
       description |-> <<"L","o","u","d",".">>, arc |-> <<>>,
       image_prompt |-> <<>>] }

SeqsUpTo(S, n) == UNION {[1..k -> S] : k \in 0..n}

CharacterResponses == SeqsUpTo(CharacterPool, MaxChars)

OldLine ==
    [character |-> <<"A","l">>, parenthetical |-> None,
     line |-> <<"S","t","o","p",".">>]

NewLine ==
    [character |-> <<"B","o">>, parenthetical |-> Some(<<"l","o","w">>),
     line |-> <<"W","e"," ","g","o"," ","n","o","w",".">>]

ScenePool ==
    { [scene_number |-> 1, episode_number |-> 1,
       heading |-> <<"I","n","t","."," ","O","f","f","i","c","e"," ","-"," ","N","i","g","h","t">>,
       action |-> <<"S","h","e"," ","r","u","n","s",".">>,
       dialogue |-> <<OldLine>>, transition |-> Some(<<"c","u","t"," ","t","o",":">>)],
      [scene_number |-> 2, episode_number |-> 2,
       heading |-> <<"E","X","T","."," ","R","O","A","D"," ","-"," ","D","A","Y">>,
       action |-> <<"H","e"," ","w","a","i","t","s",".">>,
       dialogue |-> <<>>, transition |-> None] }

SceneResponses == SeqsUpTo(ScenePool, MaxScenes)

DialogueResponses == { <<>>, <<NewLine>> }

MimePng == <<"i","m","a","g","e","/","p","n","g">>

MimeJpeg == <<"i","m","a","g","e","/","j","p","e","g">>

ImageOutcomes ==
    { [status |-> "error"],
      [status |-> "ok", mime |-> MimePng],
      [status |-> "ok", mime |-> MimeJpeg],
      [status |-> "write_error", mime |-> MimePng] }

Skipped == [status |-> "skipped"]

(***************************************************************************)
(* The agents (src/agents/*.py): each maps the state and the outcome of    *)
(* its model call(s) to the partial update it returns.                     *)
(***************************************************************************)
\* mutant of create_logline_agent: another placeholder genre in the fallback
create_logline_agent_wrong_fallback(st, out) ==
    IF out.ok
    THEN [logline |-> out.resp.logline, genre |-> out.resp.genre, tone |-> out.resp.tone]
    ELSE [logline |-> <<"A"," ","c","o","m","p","e","l","l","i","n","g"," ","s","t","o","r","y"," ","u","n","f","o","l","d","s",".">>,
          genre |-> "Unknown", tone |-> "Dramatic"]

create_logline_agent(st, out) ==
    IF out.ok
    THEN [logline |-> out.resp.logline, genre |-> out.resp.genre, tone |-> out.resp.tone]
    ELSE [logline |-> <<"A"," ","c","o","m","p","e","l","l","i","n","g"," ","s","t","o","r","y"," ","u","n","f","o","l","d","s",".">>,
          genre |-> "Drama", tone |-> "Dramatic"]

\* mutant of create_outline_agent: the fallback strings are empty
create_outline_agent_empty_fallback(st, out) ==
    IF out.ok
    THEN [outline |-> out.resp.outline, beat_sheet |-> out.resp.beat_sheet]
    ELSE [outline |-> "", beat_sheet |-> ""]

create_outline_agent(st, out) ==
    IF out.ok
    THEN [outline |-> out.resp.outline, beat_sheet |-> out.resp.beat_sheet]
    ELSE [outline |-> "Error generating outline.",
          beat_sheet |-> "Error generating beat sheet."]

\* Character(**char.dict()): image_path takes its default None
ToCharacter(char) ==
    [name |-> char.name, age |-> Some(char.age), description |-> char.description,
     role |-> char.role, arc |-> Some(char.arc),
     image_prompt |-> Some(char.image_prompt), image_path |-> None]

\* mutant of create_character_agent: the fallback is a stand-in character
create_character_agent_placeholder(st, out) ==
    IF out.ok
    THEN [characters |-> [i \in 1..Len(out.resp) |-> ToCharacter(out.resp[i])]]
    ELSE [characters |-> <<ToCharacter([name |-> <<"B","o">>, age |-> 0, role |-> <<"s","u","p","p","o","r","t","i","n","g">>,
                                         description |-> <<>>, arc |-> <<>>,
                                         image_prompt |-> <<>>])>>]

create_character_agent(st, out) ==
    IF out.ok
    THEN [characters |-> [i \in 1..Len(out.resp) |-> ToCharacter(out.resp[i])]]
    ELSE [characters |-> <<>>]

\* mutant of ToScene: the transition is not carried over
ToScene_without_transition(scene_schema) ==
    [scene_number |-> scene_schema.scene_number,
     episode_number |-> scene_schema.episode_number,
     heading |-> scene_schema.heading,
     action |-> scene_schema.action,
     dialogue |-> scene_schema.dialogue,
     transition |-> None]

\* Scene(**scene_dict)
ToScene(scene_schema) ==
    [scene_number |-> scene_schema.scene_number,
     episode_number |-> scene_schema.episode_number,
     heading |-> scene_schema.heading,
     action |-> scene_schema.action,
     dialogue |-> scene_schema.dialogue,
     transition |-> scene_schema.transition]

\* mutant of max_episode: the episode of the last scene
max_episode_of_last(scenes) ==
    IF scenes # <<>> THEN scenes[Len(scenes)].episode_number ELSE 1

\* max(episodes.keys()), or 1 when there are no scenes
max_episode(scenes) ==
    IF scenes # <<>>
    THEN CHOOSE m \in {scenes[i].episode_number : i \in 1..Len(scenes)} :
            \A i \in 1..Len(scenes) : scenes[i].episode_number <= m
    ELSE 1

\* mutant of create_scene_agent: the scenes are renumbered 1, 2, ...
create_scene_agent_renumbers(st, out) ==
    IF out.ok
    THEN LET scenes == [i \in 1..Len(out.resp) |->
                           [ToScene(out.resp[i]) EXCEPT !.scene_number = i]]
         IN  [scenes |-> scenes, episode_number |-> max_episode(scenes)]
    ELSE [scenes |-> <<>>, episode_number |-> 1]

create_scene_agent(st, out) ==
    IF out.ok
    THEN LET scenes == [i \in 1..Len(out.resp) |-> ToScene(out.resp[i])]
         IN  [scenes |-> scenes, episode_number |-> max_episode(scenes)]
    ELSE [scenes |-> <<>>, episode_number |-> 1]

\* mutant of enhance_scene: a failed call clears the scene's dialogue
enhance_scene_clears(scene, out) ==
    IF out.ok THEN [scene EXCEPT !.dialogue = out.resp]
    ELSE [scene EXCEPT !.dialogue = <<>>]

\* one iteration of the loop over scenes: the try/except around the call
enhance_scene(scene, out) ==
    IF out.ok THEN [scene EXCEPT !.dialogue = out.resp] ELSE scene

\* outs[i] is the outcome of the call made for the i-th scene
create_dialogue_agent(st, outs) ==
    LET scenes == Get(st, "scenes", <<>>)
    IN  [scenes |-> [i \in 1..Len(scenes) |-> enhance_scene(scenes[i], outs[i])]]

(***************************************************************************)
(* ImageGenerator.generate_character_image (src/utils/image_generator.py). *)
(***************************************************************************)
\* mutant of image_file: the extension is png whatever the MIME type
image_file_always_png(character_name, mime_type) ==
    LET safe_name == Lower(Replace(Replace(character_name, " ", <<"_">>), ".", <<>>))
    IN  <<"g","e","n","e","r","a","t","e","d","_","i","m","a","g","e","s","/">>
          \o safe_name \o <<".">> \o <<"p","n","g">>

image_file(character_name, mime_type) ==
    LET safe_name == Lower(Replace(Replace(character_name, " ", <<"_">>), ".", <<>>))
        ext == IF Contains(mime_type, <<"p","n","g">>)
               THEN <<"p","n","g">> ELSE <<"j","p","g">>
    IN  <<"g","e","n","e","r","a","t","e","d","_","i","m","a","g","e","s","/">>
          \o safe_name \o <<".">> \o ext

\* mutant of generate_character_image: a failed call still returns a path
generate_character_image_keeps_path(character_name, image_prompt, out) ==
    Some(image_file(character_name, Get(out, "mime", MimePng)))

\* the whole body is inside try/except: every failure, a failed write
\* of the image file included, returns None
generate_character_image(character_name, image_prompt, out) ==
    IF out.status = "ok" THEN Some(image_file(character_name, out.mime)) ELSE None

(***************************************************************************)
(* The nodes ScreenplayWorkflow defines itself (src/workflow.py).          *)
(***************************************************************************)
\* mutant of generate_title: the commas stay in the title
generate_title_keeps_commas(st) ==
    LET logline == Get(st, "logline", <<>>)
        words == The({ SubSeq(all, 1, IF Len(all) < 4 THEN Len(all) ELSE 4) :
                       all \in {Split(logline)} })
        title == Replace(Join(words, <<" ">>), ".", <<>>)
    IN  [title |-> Upper(title), author |-> <<"A","I"," ","G","e","n","e","r","a","t","e","d">>]

generate_title(st) ==
    LET logline == Get(st, "logline", <<>>)
        words == The({ SubSeq(all, 1, IF Len(all) < 4 THEN Len(all) ELSE 4) :
                       all \in {Split(logline)} })
        title == Replace(Replace(Join(words, <<" ">>), ",", <<>>), ".", <<>>)
    IN  [title |-> Upper(title), author |-> <<"A","I"," ","G","e","n","e","r","a","t","e","d">>]

workflow_format_screenplay(st) ==
    LET scenes == Get(st, "scenes", <<>>)
        title == Get(st, "title", <<"U","N","T","I","T","L","E","D">>)
        author == Get(st, "author", <<"A","I"," ","G","e","n","e","r","a","t","e","d">>)
    IN  [formatted_screenplay |-> format_screenplay(title, author, scenes)]

\* mutant of with_image: the prompt is used up by the call
with_image_consumes_prompt(character, out) ==
    IF Truthy(character.image_prompt)
    THEN [character EXCEPT !.image_path =
             generate_character_image(character.name, character.image_prompt[1], out),
                           !.image_prompt = None]
    ELSE character

\* one iteration of the loop over characters
with_image(character, out) ==
    IF Truthy(character.image_prompt)
    THEN [character EXCEPT !.image_path =
             generate_character_image(character.name, character.image_prompt[1], out)]
    ELSE character

\* outs[i] is the outcome of the call made for the i-th character
generate_character_images(st, outs) ==
    LET characters == Get(st, "characters", <<>>)
    IN  [characters |-> [i \in 1..Len(characters) |-> with_image(characters[i], outs[i])]]

\* mutant of export_to_pdf: the title page counted as one page, not two
export_to_pdf_off_by_one(st) ==
    LET title == Get(st, "title", <<"U","N","T","I","T","L","E","D">>)
        characters == Get(st, "characters", <<>>)
        scenes == Get(st, "scenes", <<>>)
    IN  [pdf_path |-> export_path(title),
         total_pages |-> Len(characters) + 1 + Len(scenes)]

\* mutant of export_to_pdf: the file's path is written back as the title
export_to_pdf_retitles(st) ==
    LET title == Get(st, "title", <<"U","N","T","I","T","L","E","D">>)
        characters == Get(st, "characters", <<>>)
        scenes == Get(st, "scenes", <<>>)
    IN  [pdf_path |-> export_path(title),
         total_pages |-> Len(characters) + 2 + Len(scenes),
         title |-> export_path(title)]

export_to_pdf(st) ==
    LET title == Get(st, "title", <<"U","N","T","I","T","L","E","D">>)
        characters == Get(st, "characters", <<>>)
        scenes == Get(st, "scenes", <<>>)
    IN  [pdf_path |-> export_path(title),
         total_pages |-> Len(characters) + 2 + Len(scenes)]

(***************************************************************************)
(* The compiled graph (ScreenplayWorkflow.build_workflow) and its driver   *)
(* (app.invoke in generate_screenplay): a node runs on the whole state and *)
(* its return value is merged into the state key by key.                   *)
(***************************************************************************)
\* mutant of Edge: the graph of agent.py, which has no title_generator node
Edge_without_title ==
    [logline_agent |-> "outline_agent",
     outline_agent |-> "character_agent",
     character_agent |-> "scene_agent",
     scene_agent |-> "dialogue_agent",
     dialogue_agent |-> "formatter",
     title_generator |-> "formatter",
     formatter |-> "image_generator",
     image_generator |-> "pdf_exporter",
     pdf_exporter |-> "END"]

EntryPoint == "logline_agent"

Edge ==
    [logline_agent |-> "outline_agent",
     outline_agent |-> "character_agent",
     character_agent |-> "scene_agent",
     scene_agent |-> "dialogue_agent",
     dialogue_agent |-> "title_generator",
     title_generator |-> "formatter",
     formatter |-> "image_generator",
     image_generator |-> "pdf_exporter",
     pdf_exporter |-> "END"]

\* mutant of Merge: the node's return value replaces the state
Merge_replace(st, update) == update

\* the state update LangGraph applies for a TypedDict state without reducers
Merge(st, update) ==
    The({ [k \in DOMAIN st \cup DOMAIN u |-> IF k \in DOMAIN u THEN u[k] ELSE st[k]] :
          u \in {update} })

\* a node returned `update`: merge it and follow the node's edge
Returned(node, update) ==
    /\ state' = Merge(state, update)
    /\ pc' = Edge[node]
    /\ executed' = Append(executed, node)

\* the keys a node reads with state[key] before its try block; the Dialogue
\* agent reads genre and tone inside its loop, once per scene
Reads(node, st) ==
    CASE node = "logline_agent" -> {"idea"}
      [] node = "outline_agent" -> {"logline", "genre", "tone"}
      [] node = "character_agent" -> {"logline", "genre", "tone", "outline"}
      [] node = "scene_agent" -> {"logline", "genre", "tone", "beat_sheet"}
      [] node = "dialogue_agent" ->
            IF Get(st, "scenes", <<>>) # <<>> THEN {"genre", "tone"} ELSE {}
      [] OTHER -> {}

\* state[key] on a dict without the key
KeyError(node, st) == ~(Reads(node, st) \subseteq DOMAIN st)

\* an exception left the node: app.invoke raises and no update is merged
Raised(node) ==
    /\ pc' = "raised"
    /\ executed' = Append(executed, node)
    /\ state' = state

TextCall(node, item, out) == [stage |-> node, item |-> item, ok |-> out.ok]

\* what the run records of one text-model call: whether it returned and, for
\* a Scene or Dialogue call, the list it returned
TextOutcome(out, list) ==
    [ok |-> out.ok, status |-> IF out.ok THEN "ok" ELSE "error",
     mime |-> <<>>, resp |-> list]

\* what the run records of doc.build in the Export stage
BuildOutcome(built) ==
    [ok |-> built, status |-> IF built THEN "ok" ELSE "write_error",
     mime |-> <<>>, resp |-> <<>>]

\* what the run records of one character of the Image stage
ImageOutcome(out) ==
    [ok |-> out.status = "ok", status |-> out.status,
     mime |-> IF out.status = "skipped" THEN <<>> ELSE Get(out, "mime", <<>>),
     resp |-> <<>>]

Init ==
    /\ pc = EntryPoint
    /\ state \in {[idea |-> idea] : idea \in Ideas}
    /\ executed = <<>>
    /\ calls = <<>>
    /\ outcomes = <<>>
    /\ fsError = FALSE
    /\ arg = <<>>
    /\ result = <<>>
    /\ applied = "none"

\* mutant of LoglineNode: a failed model call raises out of the node
LoglineNode_raises ==
    /\ pc = "logline_agent"
    /\ \E out \in Outcomes(LoglineResponses) :
          /\ IF out.ok
             THEN Returned("logline_agent", create_logline_agent(state, out))
             ELSE /\ pc' = "raised"
                  /\ executed' = Append(executed, "logline_agent")
                  /\ state' = state
          /\ calls' = Append(calls, TextCall("logline_agent", 0, out))
          /\ outcomes' = <<TextOutcome(out, <<>>)>>
    /\ UNCHANGED <<fsError, harnessVars>>

LoglineNode ==
    /\ pc = "logline_agent"
    /\ IF KeyError("logline_agent", state)
       THEN /\ Raised("logline_agent")
            /\ calls' = calls
            /\ outcomes' = <<>>
       ELSE \E out \in Outcomes(LoglineResponses) :
               /\ Returned("logline_agent", create_logline_agent(state, out))
               /\ calls' = Append(calls, TextCall("logline_agent", 0, out))
               /\ outcomes' = <<TextOutcome(out, <<>>)>>
    /\ UNCHANGED <<fsError, harnessVars>>

\* mutant of OutlineNode: a failed model call is issued a second time
OutlineNode_retries ==
    /\ pc = "outline_agent"
    /\ IF KeyError("outline_agent", state)
       THEN /\ Raised("outline_agent")
            /\ calls' = calls
            /\ outcomes' = <<>>
       ELSE \E out \in Outcomes(OutlineResponses), again \in Outcomes(OutlineResponses) :
               /\ Returned("outline_agent",
                           create_outline_agent(state, IF out.ok THEN out ELSE again))
               /\ calls' = IF out.ok
                           THEN Append(calls, TextCall("outline_agent", 0, out))
                           ELSE calls \o <<TextCall("outline_agent", 0, out),
                                           TextCall("outline_agent", 0, again)>>
               /\ outcomes' = <<TextOutcome(IF out.ok THEN out ELSE again, <<>>)>>
    /\ UNCHANGED <<fsError, harnessVars>>

OutlineNode ==
    /\ pc = "outline_agent"
    /\ IF KeyError("outline_agent", state)
       THEN /\ Raised("outline_agent")
            /\ calls' = calls
            /\ outcomes' = <<>>
       ELSE \E out \in Outcomes(OutlineResponses) :
               /\ Returned("outline_agent", create_outline_agent(state, out))
               /\ calls' = Append(calls, TextCall("outline_agent", 0, out))
               /\ outcomes' = <<TextOutcome(out, <<>>)>>
    /\ UNCHANGED <<fsError, harnessVars>>

\* the Character node, the model answering with one of `responses`
CharacterStep(responses) ==
    /\ pc = "character_agent"
    /\ IF KeyError("character_agent", state)
       THEN /\ Raised("character_agent")
            /\ calls' = calls
            /\ outcomes' = <<>>
       ELSE \E out \in Outcomes(responses) :
               /\ Returned("character_agent", create_character_agent(state, out))
               /\ calls' = Append(calls, TextCall("character_agent", 0, out))
               /\ outcomes' = <<TextOutcome(out, <<>>)>>
    /\ UNCHANGED <<fsError, harnessVars>>

CharacterNode == CharacterStep(CharacterResponses)

SceneNode ==
    /\ pc = "scene_agent"
    /\ IF KeyError("scene_agent", state)
       THEN /\ Raised("scene_agent")
            /\ calls' = calls
            /\ outcomes' = <<>>
       ELSE \E out \in Outcomes(SceneResponses) :
               /\ Returned("scene_agent", create_scene_agent(state, out))
               /\ calls' = Append(calls, TextCall("scene_agent", 0, out))
               /\ outcomes' = <<TextOutcome(out, IF out.ok THEN out.resp ELSE <<>>)>>
    /\ UNCHANGED <<fsError, harnessVars>>

DialogueNode ==
    /\ pc = "dialogue_agent"
    /\ IF KeyError("dialogue_agent", state)
       THEN /\ Raised("dialogue_agent")
            /\ calls' = calls
            /\ outcomes' = <<>>
       ELSE LET n == Len(Get(state, "scenes", <<>>))
            IN  \E os \in [1..n -> Outcomes(DialogueResponses)] :
                   /\ Returned("dialogue_agent", create_dialogue_agent(state, os))
                   /\ calls' = calls \o [i \in 1..n |-> TextCall("dialogue_agent", i, os[i])]
                   /\ outcomes' = [i \in 1..n |->
                          TextOutcome(os[i], IF os[i].ok THEN os[i].resp ELSE <<>>)]
    /\ UNCHANGED <<fsError, harnessVars>>

TitleNode ==
    /\ pc = "title_generator"
    /\ Returned("title_generator", generate_title(state))
    /\ outcomes' = <<>>
    /\ UNCHANGED <<calls, fsError, harnessVars>>

FormatNode ==
    /\ pc = "formatter"
    /\ Returned("formatter", workflow_format_screenplay(state))
    /\ outcomes' = <<>>
    /\ UNCHANGED <<calls, fsError, harnessVars>>

\* the image client is called for the characters with a truthy image_prompt
ImageNode ==
    /\ pc = "image_generator"
    /\ LET characters == Get(state, "characters", <<>>)
           n == Len(characters)
       IN  \E os \in [1..n -> ImageOutcomes \cup {Skipped}] :
              /\ \A i \in 1..n :
                    (os[i] = Skipped) <=> ~Truthy(characters[i].image_prompt)
              /\ Returned("image_generator", generate_character_images(state, os))
              /\ calls' = calls \o SelectSeq(
                     [i \in 1..n |-> [stage |-> "image_generator", item |-> i,
                                      ok |-> os[i].status \in {"ok", "write_error"}]],
                     LAMBDA c : os[c.item] # Skipped)
              /\ outcomes' = [i \in 1..n |-> ImageOutcome(os[i])]
              /\ fsError' = (fsError \/ \E i \in 1..n : os[i].status = "write_error")
    /\ UNCHANGED harnessVars

\* mutant of ExportNode: a failed build is turned into an empty pdf_path
ExportNode_swallows ==
    /\ pc = "pdf_exporter"
    /\ \E built \in BOOLEAN :
          /\ IF built
             THEN /\ Returned("pdf_exporter", export_to_pdf(state))
                  /\ fsError' = fsError
             ELSE /\ Returned("pdf_exporter", [pdf_path |-> <<>>, total_pages |-> 0])
                  /\ fsError' = TRUE
          /\ outcomes' = <<BuildOutcome(built)>>
    /\ UNCHANGED <<calls, harnessVars>>

\* doc.build writes the file; when it cannot, export_pdf raises and the
\* exception leaves app.invoke
ExportNode ==
    /\ pc = "pdf_exporter"
    /\ \E built \in BOOLEAN :
          /\ IF built
             THEN /\ Returned("pdf_exporter", export_to_pdf(state))
                  /\ fsError' = fsError
             ELSE /\ Raised("pdf_exporter")
                  /\ fsError' = TRUE
          /\ outcomes' = <<BuildOutcome(built)>>
    /\ UNCHANGED <<calls, harnessVars>>

Next ==
    \/ LoglineNode
    \/ OutlineNode
    \/ CharacterNode
    \/ SceneNode
    \/ DialogueNode
    \/ TitleNode
    \/ FormatNode
    \/ ImageNode
    \/ ExportNode

Spec == Init /\ [][Next]_vars

\* app.invoke keeps running nodes until it reaches END or a node raises
FairSpec == Spec /\ WF_vars(Next)

(***************************************************************************)
(* The formatter and the PDF story builder as pure functions: the input    *)
(* is drawn in the initial state and one call is applied to it.            *)
(***************************************************************************)
\* word lengths around the two widths: 30 + 1 + 29 = 60, 5 + 1 + 29 = 35
WordLens == {1, 5, 29, 30, 35, 60}

Separators == { <<" ">>, <<"\n">>, <<" "," ">> }

Paddings == { <<>>, <<" ">> }

\* the i-th word is written in the i-th letter, so words can be told apart
WordsOf(lens) == [i \in 1..Len(lens) |-> Repeat(LowerLetters[i], lens[i])]

WrapTexts ==
    { pad \o Join(WordsOf(lens), sep) \o pad :
        lens \in SeqsUpTo(WordLens, MaxWords), sep \in Separators, pad \in Paddings }

HeadingTexts ==
    SeqsUpTo({"a", "A", ".", " "}, MaxHeadingLen)
      \cup { <<"I","n","t","."," ","O","f","f","i","c","e"," ","-"," ","N","i","g","h","t">>,
             <<"E","X","T","."," ","R","O","A","D"," ","-"," ","D","A","Y">> }

HarnessScenes ==
    { [s EXCEPT !.heading = h] : s \in {ToScene(r) : r \in ScenePool}, h \in HeadingTexts }

\* scenes numbered 1..n in list order, with the given episode numbers
ScenesWithEpisodes(eps) ==
    [i \in 1..Len(eps) |->
        [scene_number |-> i, episode_number |-> eps[i],
         heading |-> <<"E","X","T","."," ","R","O","A","D"," ","-"," ","D","A","Y">>,
         action |-> <<"H","e"," ","w","a","i","t","s",".">>,
         dialogue |-> IF i = 1 THEN <<OldLine>> ELSE <<>>,
         transition |-> None]]

EpisodeSequences == SeqsUpTo({1, 2, 3}, MaxExportScenes)

HarnessInit(args) ==
    /\ pc = "off"
    /\ state = [idea |-> ""]
    /\ executed = <<>>
    /\ calls = <<>>
    /\ outcomes = <<>>
    /\ fsError = FALSE
    /\ arg \in args
    /\ result = <<>>
    /\ applied = "none"

Apply(kind, name, value) ==
    /\ applied = "none"
    /\ arg.kind = kind
    /\ result' = value
    /\ applied' = name
    /\ UNCHANGED <<arg, pipelineVars>>

HarnessTitles == { <<>>, <<"G","o"," ","n","o","w">> }

HarnessScreenplays ==
    { [kind |-> "screenplay", title |-> title, author |-> <<"A","I"," ","G","e","n","e","r","a","t","e","d">>,
       scenes |-> [i \in 1..Len(r) |-> ToScene(r[i])]] :
        title \in HarnessTitles, r \in SceneResponses }

FormatterInit ==
    HarnessInit({[kind |-> "text", text |-> x] : x \in WrapTexts}
                  \cup {[kind |-> "scene", scene |-> x] : x \in HarnessScenes}
                  \cup HarnessScreenplays)

ApplyFormatAction == Apply("text", "format_action", format_action(arg.text))

ApplyFormatDialogueLine ==
    Apply("text", "format_dialogue_line", format_dialogue_line(arg.text))

ApplyFormatScene == Apply("scene", "format_scene", format_scene(arg.scene))

ApplyFormatScreenplay ==
    Apply("screenplay", "format_screenplay",
          format_screenplay(arg.title, arg.author, arg.scenes))

FormatterNext ==
    \/ ApplyFormatAction
    \/ ApplyFormatDialogueLine
    \/ ApplyFormatScene
    \/ ApplyFormatScreenplay

FormatterSpec == FormatterInit /\ [][FormatterNext]_vars

\* the same list with the scene_numbers n, ..., 1 instead of 1, ..., n
NumberedDownwards(scenes) ==
    [i \in 1..Len(scenes) |->
        [scenes[i] EXCEPT !.scene_number = Len(scenes) + 1 - i]]

ExporterInit ==
    HarnessInit({[kind |-> "scenes", scenes |-> ScenesWithEpisodes(eps)] :
                    eps \in EpisodeSequences}
                  \cup {[kind |-> "scenes",
                         scenes |-> NumberedDownwards(ScenesWithEpisodes(eps))] :
                           eps \in EpisodeSequences})

ApplyCreateScreenplayPages ==
    Apply("scenes", "create_screenplay_pages", create_screenplay_pages(arg.scenes))

ExporterNext == ApplyCreateScreenplayPages

ExporterSpec == ExporterInit /\ [][ExporterNext]_vars

(***************************************************************************)
(* A node function called directly on a state dict (the agents are plain   *)
(* functions of the state, the nodes of ScreenplayWorkflow plain methods): *)
(* the state holds idea and any subset of the upstream fields.             *)
(***************************************************************************)
MaxStageChars == 2

StageNodes ==
    {"outline_agent", "character_agent", "scene_agent", "dialogue_agent",
     "title_generator", "image_generator"}

UpstreamFields ==
    {"logline", "genre", "tone", "outline", "beat_sheet", "characters", "scenes"}

StageCharacters ==
    { [i \in 1..Len(r) |-> ToCharacter(r[i])] :
        r \in SeqsUpTo(CharacterPool, MaxStageChars) }

StageScenes ==
    {<<>>} \cup { <<ToScene(p[1]), ToScene(p[2])>> :
                    p \in {q \in ScenePool \X ScenePool :
                              q[1].scene_number < q[2].scene_number} }

\* the loglines a state may hold: a model answer, the empty string included
StageLoglines ==
    LoglineResponses \cup {[logline |-> <<>>, genre |-> "Drama", tone |-> "Dark"]}

FullStates ==
    { [idea |-> idea, logline |-> l.logline, genre |-> l.genre, tone |-> l.tone,
       outline |-> o.outline, beat_sheet |-> o.beat_sheet,
       characters |-> cs, scenes |-> ss] :
        idea \in Ideas, l \in StageLoglines,
        o \in OutlineResponses, cs \in StageCharacters, ss \in StageScenes }

Restrict(d, keys) == [k \in keys |-> d[k]]

StageInit ==
    /\ pc \in StageNodes
    /\ state \in { Restrict(full, {"idea"} \cup keys) :
                      full \in FullStates, keys \in SUBSET UpstreamFields }
    /\ executed = <<>>
    /\ calls = <<>>
    /\ outcomes = <<>>
    /\ fsError = FALSE
    /\ arg = <<>>
    /\ result = <<>>
    /\ applied = "none"

\* the call under study is the only one made
DirectCall(Node) == executed = <<>> /\ Node

CallOutline == DirectCall(OutlineNode)

\* the model may answer with as many characters as a state may hold
StageCharacterResponses == SeqsUpTo(CharacterPool, MaxStageChars)

CallCharacter == DirectCall(CharacterStep(StageCharacterResponses))

CallScene == DirectCall(SceneNode)

CallDialogue == DirectCall(DialogueNode)

CallTitle == DirectCall(TitleNode)

CallImage == DirectCall(ImageNode)

StageNext ==
    \/ CallOutline
    \/ CallCharacter
    \/ CallScene
    \/ CallDialogue
    \/ CallTitle
    \/ CallImage

StageSpec == StageInit /\ [][StageNext]_vars

(***************************************************************************)
(* Properties of the pipeline.                                             *)
(***************************************************************************)
StageOrder ==
    << "logline_agent", "outline_agent", "character_agent", "scene_agent",
       "dialogue_agent", "title_generator", "formatter", "image_generator",
       "pdf_exporter" >>

Ended == pc \in {"END", "raised"}

FailedCall(node) == \E i \in 1..Len(calls) : calls[i].stage = node /\ ~calls[i].ok

GoodCall(node) == \E i \in 1..Len(calls) : calls[i].stage = node /\ calls[i].ok

\* C1: a run executes the nine stages once each in the order Logline,
\* Outline, Character, Scene, Dialogue, Title, Format, Image, Export: at
\* every moment the stages executed so far are a prefix of that order, the
\* node about to run is the next one of it, and a run that has ended has
\* executed all nine, whatever the model calls returned.
C1_FixedStageOrder ==
    /\ Len(executed) <= Len(StageOrder)
    /\ executed = SubSeq(StageOrder, 1, Len(executed))
    /\ ~Ended => pc = StageOrder[Len(executed) + 1]
    /\ Ended => executed = StageOrder

C1_Witness ==
    /\ pc = "END"
    /\ executed = StageOrder
    /\ FailedCall("outline_agent")
    /\ FailedCall("dialogue_agent")
    /\ GoodCall("dialogue_agent")

\* C2: whatever model-side calls fail, a node raises only on a filesystem
\* error, and a run without a filesystem error eventually reaches END.
C2_RunCompletes ==
    /\ [](pc = "raised" => fsError)
    /\ <>(pc = "END" \/ fsError)

C2_Witness ==
    /\ pc = "END"
    /\ ~fsError
    /\ FailedCall("logline_agent")
    /\ FailedCall("outline_agent")
    /\ FailedCall("dialogue_agent")
    /\ FailedCall("image_generator")

\* C3: when the Logline stage's model call fails, the state after the stage
\* has logline "A compelling story unfolds.", genre "Drama", tone
\* "Dramatic", and the node that runs next is the Outline stage.
C3_LoglineFallback ==
    [][(pc = "logline_agent" /\ pc' # pc /\ ~outcomes'[1].ok) =>
          /\ {"logline", "genre", "tone"} \subseteq DOMAIN state'
          /\ state'.logline = <<"A"," ","c","o","m","p","e","l","l","i","n","g"," ","s","t","o","r","y"," ","u","n","f","o","l","d","s",".">>
          /\ state'.genre = "Drama"
          /\ state'.tone = "Dramatic"
          /\ pc' = "outline_agent"]_vars

C3_Witness ==
    /\ executed = <<"logline_agent", "outline_agent">>
    /\ ~calls[1].ok
    /\ state.genre = "Drama"

\* C4: after the Dialogue stage every scene whose call succeeded carries
\* exactly the dialogue list the model returned for it and every scene
\* whose call failed carries exactly the dialogue it had before the stage;
\* the stage returns as many scenes as it was given.
C4_DialogueIsolation ==
    [][(pc = "dialogue_agent" /\ pc' # pc) =>
          LET old == Get(state, "scenes", <<>>)
              new == state'.scenes
          IN  /\ Len(new) = Len(old)
              /\ \A i \in 1..Len(old) :
                    new[i].dialogue = IF outcomes'[i].ok
                                      THEN outcomes'[i].resp
                                      ELSE old[i].dialogue]_vars

C4_Witness ==
    /\ pc = "title_generator"
    /\ \E i, j \in 1..Len(state.scenes) :
          /\ ~outcomes[i].ok
          /\ state.scenes[i].dialogue = <<OldLine>>
          /\ outcomes[j].ok
          /\ state.scenes[j].dialogue = <<NewLine>>

\* the fields each stage is said to write
StageFields ==
    [logline_agent |-> {"logline", "genre", "tone"},
     outline_agent |-> {"outline", "beat_sheet"},
     character_agent |-> {"characters"},
     scene_agent |-> {"scenes", "episode_number"},
     dialogue_agent |-> {"scenes"},
     title_generator |-> {"title", "author"},
     formatter |-> {"formatted_screenplay"},
     image_generator |-> {"characters"},
     pdf_exporter |-> {"pdf_path", "total_pages"}]

\* C5: a stage that returns writes its own fields and leaves every other
\* field as it was (no field is removed, none outside its set is added or
\* changed); idea is never modified.
C5_StageFrame ==
    [][(pc \in DOMAIN StageFields /\ pc' # pc) =>
          /\ DOMAIN state \subseteq DOMAIN state'
          /\ pc' # "raised" => StageFields[pc] \subseteq DOMAIN state'
          /\ \A k \in DOMAIN state' \ StageFields[pc] :
                k \in DOMAIN state /\ state'[k] = state[k]
          /\ state'.idea = state.idea]_vars

C5_Witness ==
    /\ pc = "END"
    /\ DOMAIN state = {"idea"} \cup UNION {StageFields[n] : n \in DOMAIN StageFields}
    /\ GoodCall("dialogue_agent")
    /\ \E i \in 1..Len(state.characters) : state.characters[i].image_path # None

\* C6: a completed run has a non-empty pdf_path and total_pages equal to
\* len(characters) + 2 + len(scenes) over the final state's own lists.
C6_PdfPathAndPages ==
    pc = "END" =>
        /\ state.pdf_path # <<>>
        /\ state.total_pages = Len(state.characters) + 2 + Len(state.scenes)

C6_Witness ==
    /\ pc = "END"
    /\ Len(state.characters) = 1
    /\ Len(state.scenes) = 2
    /\ state.total_pages = 5

(***************************************************************************)
(* Properties of the PDF story builder and of the formatter.               *)
(***************************************************************************)
IsMarker(e) ==
    /\ e.kind = "Paragraph"
    /\ e.style = "SceneHeading"
    /\ StartsWith(e.text, <<"<","b",">","E","P","I","S","O","D","E"," ">>)

\* the paragraph carrying the heading of the scene numbered n
IsHeadingOf(e, scene) ==
    /\ e.kind = "Paragraph"
    /\ e.style = "SceneHeading"
    /\ e.text = IntToText(scene.scene_number) \o <<" "," "," "," ">> \o Upper(scene.heading)

\* a marker (spacer, paragraph, spacer) for `episode` ends right before p
MarkerBefore(story, p, episode) ==
    /\ p > 3
    /\ story[p - 1] = Spacer(3)
    /\ story[p - 2] = Paragraph(<<"<","b",">","E","P","I","S","O","D","E"," ">> \o IntToText(episode) \o <<"<","/","b",">">>,
                                "SceneHeading")
    /\ story[p - 3] = Spacer(3)

\* a marker for any episode ends right before p
AnyMarkerBefore(story, p) == p > 2 /\ IsMarker(story[p - 2])

\* the scene_numbers whose heading is immediately preceded by a marker
MarkedScenes(story, scenes) ==
    {scenes[i].scene_number : i \in {j \in 1..Len(scenes) :
        \E p \in 1..Len(story) :
            IsHeadingOf(story[p], scenes[j]) /\ AnyMarkerBefore(story, p)}}

MarkerCount(story) == Cardinality({p \in 1..Len(story) : IsMarker(story[p])})

\* the scenes that open the list or differ in episode from their predecessor
EpisodeStarts(scenes) ==
    {i \in 1..Len(scenes) :
        i = 1 \/ scenes[i].episode_number # scenes[i - 1].episode_number}

\* C7: in the story built from a scene list, the heading of a scene is
\* immediately preceded by an episode marker (naming that scene's episode)
\* exactly when the scene is the first of the list or its episode_number
\* differs from the previous scene's, and there are no other markers.
C7_EpisodeMarkers ==
    applied = "create_screenplay_pages" =>
        LET scenes == arg.scenes
        IN  /\ \A i \in 1..Len(scenes) :
                  \E p \in 1..Len(result) :
                      /\ IsHeadingOf(result[p], scenes[i])
                      /\ (i \in EpisodeStarts(scenes)
                            <=> AnyMarkerBefore(result, p))
                      /\ (i \in EpisodeStarts(scenes)
                            => MarkerBefore(result, p, scenes[i].episode_number))
            /\ MarkerCount(result) = Cardinality(EpisodeStarts(scenes))

\* the episode_number sequence [1,1,1,2,2,3]: 3 markers, before scenes 1, 4, 6
C7_Witness ==
    /\ applied = "create_screenplay_pages"
    /\ [i \in 1..Len(arg.scenes) |-> arg.scenes[i].episode_number] = <<1, 1, 1, 2, 2, 3>>
    /\ MarkerCount(result) = 3
    /\ MarkedScenes(result, arg.scenes) = {1, 4, 6}

\* the heading text of a formatted scene: what stands between the two
\* newlines that open the scene and the next newline
HeadingIn(formatted) ==
    LET rest == SubSeq(formatted, 3, Len(formatted))
        stop == CHOOSE n \in 1..Len(rest) :
                    rest[n] = "\n" /\ \A k \in 1..(n - 1) : rest[k] # "\n"
    IN  SubSeq(rest, 1, stop - 1)

HasLower(t) == \E i \in 1..Len(t) : UpperChar(t[i]) # t[i]

\* C8 as stated: the heading text in the formatter's output is the original
\* heading string, whatever its mix of upper and lower case.
C8_HeadingVerbatim ==
    applied = "format_scene" => HeadingIn(result) = arg.scene.heading

\* C8 as amended: the heading text in the formatter's output is the original
\* heading upper-cased, so it is the original string exactly when the
\* heading has no lower-case letter.
C8_HeadingUpperCased ==
    applied = "format_scene" =>
        /\ HeadingIn(result) = Upper(arg.scene.heading)
        /\ (HeadingIn(result) = arg.scene.heading <=> ~HasLower(arg.scene.heading))

C8_Witness ==
    /\ applied = "format_scene"
    /\ arg.scene.heading = <<"I","n","t","."," ","O","f","f","i","c","e"," ","-"," ","N","i","g","h","t">>
    /\ HeadingIn(result) = <<"I","N","T","."," ","O","F","F","I","C","E"," ","-"," ","N","I","G","H","T">>

\* the lines of a wrapped text: the text without its final newline, cut at
\* the newlines
RECURSIVE CutLines(_, _, _)
CutLines(body, i, cur) ==
    IF i > Len(body) THEN <<cur>>
    ELSE IF body[i] = "\n" THEN <<cur>> \o CutLines(body, i + 1, <<>>)
    ELSE CutLines(body, i + 1, Append(cur, body[i]))

LinesOf(wrapped) ==
    IF Len(wrapped) <= 1 THEN <<>>
    ELSE CutLines(SubSeq(wrapped, 1, Len(wrapped) - 1), 1, <<>>)

\* C9: wrapping an already wrapped action text again at the same width
\* gives the same text: format_action(format_action(a)) = format_action(a).
C9_WrapIdempotent ==
    applied = "format_action" => format_action(result) = result

C9_Witness ==
    /\ applied = "format_action"
    /\ Len(LinesOf(result)) >= 3
    /\ result # arg.text \o <<"\n">>
    /\ format_action(result) = result

\* the lines format_dialogue_line produced, without their indentation
Unindented(lines) ==
    [i \in 1..Len(lines) |-> SubSeq(lines[i], dialogue_margin + 1, Len(lines[i]))]

\* every line is at most `limit` long, and a line is ended only when the
\* next word would have made it longer than `limit`
GreedyAt(lines, limit) ==
    /\ \A k \in 1..Len(lines) : Len(lines[k]) <= limit
    /\ \A k \in 1..(Len(lines) - 1) :
          Len(lines[k]) + 1 + Len(Split(lines[k + 1])[1]) > limit

WordsWithin(text, limit) ==
    /\ Split(text) # <<>>
    /\ \A i \in 1..Len(Split(text)) : Len(Split(text)[i]) <= limit

\* C10 as stated: for a text whose words are no longer than the limit, the
\* lines of format_action are at most 60 characters and those of
\* format_dialogue_line at most 35, and a line is ended only when adding
\* the next word (after one space) would make it longer than the limit.
C10_GreedyAtLimit ==
    /\ (applied = "format_action" /\ WordsWithin(arg.text, page_width))
          => GreedyAt(LinesOf(result), page_width)
    /\ (applied = "format_dialogue_line" /\ WordsWithin(arg.text, max_dialogue_width))
          => GreedyAt(Unindented(LinesOf(result)), max_dialogue_width)

(***************************************************************************)
(* Properties of the Image stage and of resource failures.                 *)
(***************************************************************************)
\* the indices of the characters the image client was called for, in the
\* order of the calls
ImageCallItems(cs) ==
    LET made == SelectSeq(cs, LAMBDA c : c.stage = "image_generator")
    IN  [k \in 1..Len(made) |-> made[k].item]

RECURSIVE PromptedFrom(_, _)
\* the indices, from i on, of the characters with a non-empty image_prompt
PromptedFrom(characters, i) ==
    IF i > Len(characters) THEN <<>>
    ELSE (IF Truthy(characters[i].image_prompt) THEN <<i>> ELSE <<>>)
            \o PromptedFrom(characters, i + 1)

\* C11: the Image stage calls the image client exactly for the characters
\* with a non-empty image_prompt; a character whose call failed has
\* image_path None after the stage, a character whose call succeeded has
\* its own file path, a character without a call is untouched; nothing
\* but image_path changes, the list keeps its length and order, and the
\* node that runs next is Export.
C11_ImageFailuresIsolated ==
    [][(pc = "image_generator" /\ pc' # pc) =>
          LET old == Get(state, "characters", <<>>)
              new == state'.characters
          IN  /\ pc' = "pdf_exporter"
              /\ Len(new) = Len(old)
              /\ ImageCallItems(calls') = PromptedFrom(old, 1)
              /\ \A i \in 1..Len(old) :
                    /\ new[i] = [old[i] EXCEPT !.image_path = new[i].image_path]
                    /\ outcomes'[i].status = "error" => new[i].image_path = None
                    /\ outcomes'[i].status = "ok" =>
                          new[i].image_path =
                              Some(image_file(old[i].name, outcomes'[i].mime))
                    /\ outcomes'[i].status = "skipped" =>
                          new[i].image_path = old[i].image_path]_vars

\* two characters with a prompt: the first call failed, the second succeeded
C11_Witness ==
    /\ pc = "pdf_exporter"
    /\ executed = <<"image_generator">>
    /\ Len(state.characters) = 2
    /\ outcomes[1].status = "error"
    /\ state.characters[1].image_path = None
    /\ outcomes[2].status = "ok"
    /\ state.characters[2].image_path # None
    /\ ImageCallItems(calls) = <<1, 2>>

\* C12 as stated: a resource failure in a stage aborts the run, so whenever
\* a file write has failed the run has raised.
C12_ResourceFailuresFatal == fsError => pc = "raised"

\* C12 as amended: a failed PDF build in the Export stage raises out of the
\* run and writes neither pdf_path nor total_pages; a failed write of a
\* character's image file in the Image stage does not raise: that
\* character's image_path is None and the node that runs next is Export.
C12_ExportFatalImageDegraded ==
    [][/\ (pc = "pdf_exporter" /\ pc' # pc /\ outcomes'[1].status = "write_error")
          => (pc' = "raised" /\ state' = state /\ "pdf_path" \notin DOMAIN state')
       /\ (pc = "pdf_exporter" /\ pc' = "raised")
          => outcomes'[1].status = "write_error"
       /\ (pc = "image_generator" /\ pc' # pc)
          => /\ pc' = "pdf_exporter"
             /\ \A i \in 1..Len(outcomes') :
                   outcomes'[i].status = "write_error"
                      => state'.characters[i].image_path = None]_vars

\* the image file of a character could not be written, the run went on, and
\* it ended when the PDF could not be built
C12_Witness ==
    /\ pc = "raised"
    /\ executed = StageOrder
    /\ outcomes = <<BuildOutcome(FALSE)>>
    /\ "pdf_path" \notin DOMAIN state
    /\ \E i \in 1..Len(state.characters) :
          /\ Truthy(state.characters[i].image_prompt)
          /\ state.characters[i].image_path = None
          /\ \E k \in 1..Len(calls) :
                calls[k] = [stage |-> "image_generator", item |-> i, ok |-> TRUE]

(***************************************************************************)
(* Properties of the Outline, Character and Scene stages.                  *)
(***************************************************************************)
\* the stage at `node` has just returned after its model call failed
FallbackStep(node) ==
    /\ pc = node
    /\ pc' # pc
    /\ pc' # "raised"
    /\ ~outcomes'[1].ok

\* C13: when its model call fails, the Outline stage returns outline
\* "Error generating outline." and beat_sheet "Error generating beat
\* sheet.", the Character stage returns characters = [], and the Scene
\* stage returns scenes = [] with episode_number = 1.
C13_StageFallbacks ==
    [][/\ FallbackStep("outline_agent") =>
             /\ state'.outline = "Error generating outline."
             /\ state'.beat_sheet = "Error generating beat sheet."
       /\ FallbackStep("character_agent") => state'.characters = <<>>
       /\ FallbackStep("scene_agent") =>
             /\ state'.scenes = <<>>
             /\ state'.episode_number = 1]_vars

C13_Witness ==
    /\ pc = "dialogue_agent"
    /\ FailedCall("outline_agent")
    /\ FailedCall("character_agent")
    /\ FailedCall("scene_agent")
    /\ state.outline = "Error generating outline."
    /\ state.characters = <<>>
    /\ state.scenes = <<>>
    /\ state.episode_number = 1

\* scene_number strictly increasing from 1 and pairwise distinct, every
\* episode_number positive, equal episode_numbers contiguous
WellNumbered(list) ==
    /\ list # <<>> => list[1].scene_number = 1
    /\ \A i \in 1..(Len(list) - 1) : list[i].scene_number < list[i + 1].scene_number
    /\ \A i, j \in 1..Len(list) : i # j => list[i].scene_number # list[j].scene_number
    /\ \A i \in 1..Len(list) : list[i].episode_number > 0
    /\ \A i, j, k \in 1..Len(list) :
          (i < j /\ j < k /\ list[i].episode_number = list[k].episode_number)
             => list[j].episode_number = list[i].episode_number

Numbering(list) ==
    [i \in 1..Len(list) |-> <<list[i].scene_number, list[i].episode_number>>]

\* the Scene stage has just returned what it made of the model's answer
SceneStep ==
    /\ pc = "scene_agent"
    /\ pc' # pc
    /\ pc' # "raised"
    /\ outcomes'[1].ok

\* C14 as stated: in every state after the Scene stage the scenes list is
\* well numbered (scene_number strictly increasing from 1, distinct,
\* episode_number positive, equal episodes contiguous).
C14_ScenesWellNumbered ==
    "scenes" \in DOMAIN state => WellNumbered(state.scenes)

\* C14 as amended: the scenes list the Scene stage writes is well numbered
\* exactly when the scene list the model returned is (the fallback list is
\* empty), and no later stage changes the numbering.
C14_NumberingAsReturned ==
    [][/\ SceneStep =>
             (WellNumbered(state'.scenes) <=> WellNumbered(outcomes'[1].resp))
       /\ FallbackStep("scene_agent") => WellNumbered(state'.scenes)
       /\ ("scenes" \in DOMAIN state /\ pc' # pc) =>
             Numbering(state'.scenes) = Numbering(state.scenes)]_vars

\* a finished run whose scenes are numbered 2, 1 as the model returned them
C14_Witness ==
    /\ pc = "END"
    /\ GoodCall("scene_agent")
    /\ Numbering(state.scenes) = << <<2, 2>>, <<1, 1>> >>
    /\ ~WellNumbered(state.scenes)

\* C15: the episode_number the Scene stage writes is the greatest
\* episode_number among the scenes it wrote, and 1 when it wrote none.
C15_EpisodeNumberIsMax ==
    [][(pc = "scene_agent" /\ pc' # pc /\ pc' # "raised") =>
          LET scenes == state'.scenes
              eps == {scenes[i].episode_number : i \in 1..Len(scenes)}
          IN  IF scenes = <<>>
              THEN state'.episode_number = 1
              ELSE /\ state'.episode_number \in eps
                   /\ \A e \in eps : e <= state'.episode_number]_vars

\* the scene of the greatest episode is not the last of the list
C15_Witness ==
    /\ pc = "dialogue_agent"
    /\ Numbering(state.scenes) = << <<2, 2>>, <<1, 1>> >>
    /\ state.episode_number = 2

\* C19: on success the Scene stage writes as many scenes as the model
\* returned, in the same order, each with the scene_number, episode_number,
\* heading, action, dialogue and transition the model returned.
C19_ScenePassThrough ==
    [][SceneStep =>
          LET resp == outcomes'[1].resp
              scenes == state'.scenes
          IN  /\ Len(scenes) = Len(resp)
              /\ \A i \in 1..Len(resp) :
                    /\ scenes[i].scene_number = resp[i].scene_number
                    /\ scenes[i].episode_number = resp[i].episode_number
                    /\ scenes[i].heading = resp[i].heading
                    /\ scenes[i].action = resp[i].action
                    /\ scenes[i].dialogue = resp[i].dialogue
                    /\ scenes[i].transition = resp[i].transition]_vars

\* the model returned scene 1 twice: both copies are kept, transition included
C19_Witness ==
    /\ pc = "dialogue_agent"
    /\ GoodCall("scene_agent")
    /\ Numbering(state.scenes) = << <<1, 1>>, <<1, 1>> >>
    /\ state.scenes[2].transition # None
    /\ state.scenes[2].dialogue = <<OldLine>>

\* C16 as stated: an agent called on a state that lacks an upstream field
\* does not raise: it returns, its own fields are in the state afterwards
\* and the next node is due.
C16_MissingFieldIsEmpty ==
    \A node \in {"outline_agent", "character_agent", "scene_agent", "dialogue_agent"} :
        executed = <<node>> =>
            /\ pc = Edge[node]
            /\ StageFields[node] \subseteq DOMAIN state

(***************************************************************************)
(* Properties of the whole formatted text and of the call order.           *)
(***************************************************************************)
OpeningOf(title, author) ==
    format_title_page(title, author)
      \o <<"\n">> \o Repeat("=", 60) \o <<"\n","\n">>
      \o <<"F","A","D","E"," ","I","N",":","\n">>

Closing == <<"\n","\n","F","A","D","E"," ","O","U","T",".","\n","\n","T","H","E"," ","E","N","D">>

RECURSIVE IsBlocksOf(_, _, _)
\* text is the block of scene i, then that of scene i + 1, ... and no more
IsBlocksOf(text, scenes, i) ==
    IF i > Len(scenes) THEN text = <<>>
    ELSE LET block == format_scene(scenes[i])
         IN  /\ StartsWith(text, block)
             /\ IsBlocksOf(SubSeq(text, Len(block) + 1, Len(text)), scenes, i + 1)

\* C17: the text of format_screenplay is the title block, the separator
\* line and "FADE IN:", then the block of each scene of the list, once each
\* and in list order, then "FADE OUT." and "THE END"; it is a function of
\* title, author and scenes alone.
C17_ScreenplayStructure ==
    applied = "format_screenplay" =>
        LET opening == OpeningOf(arg.title, arg.author)
            middle == SubSeq(result, Len(opening) + 1, Len(result) - Len(Closing))
        IN  /\ Len(result) >= Len(opening) + Len(Closing)
            /\ StartsWith(result, opening)
            /\ SubSeq(result, Len(result) - Len(Closing) + 1, Len(result)) = Closing
            /\ IsBlocksOf(middle, arg.scenes, 1)
            /\ result = format_screenplay(arg.title, arg.author, arg.scenes)

\* two different scenes, the second of the pool first
C17_Witness ==
    /\ applied = "format_screenplay"
    /\ Numbering(arg.scenes) = << <<2, 2>>, <<1, 1>> >>
    /\ arg.title # <<>>
    /\ Contains(result, <<"E","X","T","."," ","R","O","A","D"," ","-"," ","D","A","Y">>)
    /\ Contains(result, <<"I","N","T","."," ","O","F","F","I","C","E"," ","-"," ","N","I","G","H","T">>)

\* the stage and item of each external call, in the order of the calls
StageItems(cs) == [k \in 1..Len(cs) |-> <<cs[k].stage, cs[k].item>>]

\* one call by each of the first four stages, one per scene by the Dialogue
\* stage, one per character with a non-empty image_prompt by the Image stage
ExpectedCalls(st) ==
    << <<"logline_agent", 0>>, <<"outline_agent", 0>>,
       <<"character_agent", 0>>, <<"scene_agent", 0>> >>
      \o [i \in 1..Len(st.scenes) |-> <<"dialogue_agent", i>>]
      \o [k \in 1..Len(PromptedFrom(st.characters, 1)) |->
            <<"image_generator", PromptedFrom(st.characters, 1)[k]>>]

HeadingPos(story, scene) ==
    CHOOSE p \in 1..Len(story) : IsHeadingOf(story[p], scene)

\* the scene with the greatest scene_number below that of scenes[i], if any
Below(scenes, i) ==
    {j \in 1..Len(scenes) :
        /\ scenes[j].scene_number < scenes[i].scene_number
        /\ \A k \in 1..Len(scenes) :
              scenes[k].scene_number < scenes[i].scene_number
                 => scenes[k].scene_number <= scenes[j].scene_number}

\* C20 as stated: the story has the heading of every scene, prefixed with
\* its scene_number; the headings stand in ascending scene_number order
\* whatever the order of the list; and an episode marker precedes a scene
\* exactly when it has the smallest scene_number or its episode differs
\* from that of the scene next below it in scene_number.
C20_ExportInSceneNumberOrder ==
    applied = "create_screenplay_pages" =>
        LET scenes == arg.scenes
        IN  /\ \A i \in 1..Len(scenes) :
                  \E p \in 1..Len(result) : IsHeadingOf(result[p], scenes[i])
            /\ \A i, j \in 1..Len(scenes) :
                  scenes[i].scene_number < scenes[j].scene_number
                     => HeadingPos(result, scenes[i]) < HeadingPos(result, scenes[j])
            /\ \A i \in 1..Len(scenes) :
                  AnyMarkerBefore(result, HeadingPos(result, scenes[i]))
                     <=> \/ Below(scenes, i) = {}
                         \/ \E j \in Below(scenes, i) :
                               scenes[j].episode_number # scenes[i].episode_number

(***************************************************************************)
(* Properties of the names the pipeline derives.                           *)
(***************************************************************************)
\* what one character of a name becomes in the file name
SafeChar(c) ==
    IF c = " " THEN <<"_">>
    ELSE IF c = "." THEN <<>>
    ELSE <<LowerChar(c)>>

RECURSIVE SafeNameFrom(_, _)
SafeNameFrom(name, i) ==
    IF i > Len(name) THEN <<>> ELSE SafeChar(name[i]) \o SafeNameFrom(name, i + 1)

ExtensionOf(mime) ==
    IF mime = MimePng THEN <<"p","n","g">> ELSE <<"j","p","g">>

\* C21: the image path of a character whose call succeeded is the images
\* directory, then the name with each space turned into an underscore,
\* each period dropped and the letters lower-cased, then "." and png for
\* the PNG MIME type or jpg for the JPEG MIME type; it depends on the name
\* and the MIME type alone.
C21_ImageFileNaming ==
    [][(pc = "image_generator" /\ pc' # pc) =>
          \A i \in 1..Len(outcomes') :
              (outcomes'[i].status = "ok" /\ outcomes'[i].mime \in {MimePng, MimeJpeg}) =>
                  state'.characters[i].image_path =
                      Some(<<"g","e","n","e","r","a","t","e","d","_","i","m","a","g","e","s","/">>
                             \o SafeNameFrom(state.characters[i].name, 1)
                             \o <<".">> \o ExtensionOf(outcomes'[i].mime))]_vars

\* DR. AL twice, answered with a PNG and with a JPEG
C21_Witness ==
    /\ executed = <<"image_generator">>
    /\ Len(state.characters) = 2
    /\ outcomes[1].mime = MimePng
    /\ outcomes[2].mime = MimeJpeg
    /\ state.characters[1].image_path = Some(<<"g","e","n","e","r","a","t","e","d","_","i","m","a","g","e","s","/","d","r","_","a","l",".","p","n","g">>)
    /\ state.characters[2].image_path = Some(<<"g","e","n","e","r","a","t","e","d","_","i","m","a","g","e","s","/","d","r","_","a","l",".","j","p","g">>)

\* C22 as stated: after the Character stage no two characters of the list
\* have the same name.
C22_UniqueCharacterNames ==
    (executed = <<"character_agent">> /\ pc # "raised") =>
        \A i, j \in 1..Len(state.characters) :
            i # j => state.characters[i].name # state.characters[j].name

(***************************************************************************)
(* Frame of the two stages that rewrite a list in place.                   *)
(***************************************************************************)
SceneFrameFields ==
    {"scene_number", "episode_number", "heading", "action", "transition"}

CharacterFrameFields ==
    {"name", "age", "description", "role", "arc", "image_prompt"}

\* the lists have the same length and agree item by item on the fields
SameExcept(before, after, fields) ==
    /\ Len(after) = Len(before)
    /\ \A i \in 1..Len(before) : \A f \in fields : after[i][f] = before[i][f]

\* C23: when the Dialogue stage returns, the scenes are as many as before,
\* in the same order, each with its scene_number, episode_number, heading,
\* action and transition unchanged; when the Image stage returns, the
\* characters are as many as before, in the same order, each with every
\* attribute but image_path unchanged.
C23_DialogueImageFrame ==
    [][/\ (pc = "dialogue_agent" /\ pc' = Edge["dialogue_agent"]) =>
            SameExcept(Get(state, "scenes", <<>>), state'.scenes, SceneFrameFields)
       /\ (pc = "image_generator" /\ pc' = Edge["image_generator"]) =>
            SameExcept(Get(state, "characters", <<>>), state'.characters,
                       CharacterFrameFields)]_vars

\* the Image stage has run on DR. AL and Bo: DR. AL has an image now and
\* still has the prompt, Bo was skipped
C23_Witness ==
    /\ executed = <<"image_generator">>
    /\ Len(state.characters) = 2
    /\ state.characters[1].name = <<"D","R","."," ","A","L">>
    /\ state.characters[1].image_path # None
    /\ state.characters[1].image_prompt = Some(<<"t","a","l","l"," ","m","a","n">>)
    /\ state.characters[2].name = <<"B","o">>
    /\ state.characters[2].image_path = None

(***************************************************************************)
(* The formatted text against the final state.                             *)
(***************************************************************************)
Position(node) == CHOOSE i \in 1..Len(executed) : executed[i] = node

\* C24: when a run has completed, formatted_screenplay is format_screenplay
\* of the final title, author and scenes, and the Format stage ran after
\* the Dialogue and Title stages.
C24_FormattedMatchesFinalState ==
    pc = "END" =>
        /\ state.formatted_screenplay =
              format_screenplay(state.title, state.author, state.scenes)
        /\ Position("dialogue_agent") < Position("formatter")
        /\ Position("title_generator") < Position("formatter")

\* a completed run whose Dialogue stage rewrote scene 1 and whose Image
\* stage gave the character an image after the text was formatted
C24_Witness ==
    /\ pc = "END"
    /\ Len(state.scenes) = 2
    /\ state.scenes[1].dialogue = <<NewLine>>
    /\ Len(state.characters) = 1
    /\ state.characters[1].image_path # None
    /\ state.title # <<>>

(***************************************************************************)
(* The run in which every model call fails.                                *)
(***************************************************************************)
AllCallsFailed == \A i \in 1..Len(calls) : ~calls[i].ok

CallsOf(node) == SelectSeq(calls, LAMBDA c : c.stage = node)

\* C25: a run in which every model call fails is stopped by no stage, and
\* when it has completed the state holds the placeholder logline, genre and
\* tone, the two outline error strings, no characters, no scenes, episode
\* number 1, the title A COMPELLING STORY UNFOLDS, the author AI Generated
\* and total_pages 2, and the Dialogue and Image stages made no call.
C25_FullyDegradedRun ==
    AllCallsFailed =>
        /\ pc = "raised" => executed[Len(executed)] = "pdf_exporter"
        /\ pc = "END" =>
              /\ Len(calls) = 4
              /\ state.logline = <<"A"," ","c","o","m","p","e","l","l","i","n","g"," ","s","t","o","r","y"," ","u","n","f","o","l","d","s",".">>
              /\ state.genre = "Drama"
              /\ state.tone = "Dramatic"
              /\ state.outline = "Error generating outline."
              /\ state.beat_sheet = "Error generating beat sheet."
              /\ state.characters = <<>>
              /\ state.scenes = <<>>
              /\ state.episode_number = 1
              /\ state.title = <<"A"," ","C","O","M","P","E","L","L","I","N","G"," ","S","T","O","R","Y"," ","U","N","F","O","L","D","S">>
              /\ state.author = <<"A","I"," ","G","e","n","e","r","a","t","e","d">>
              /\ state.total_pages = 2
              /\ CallsOf("dialogue_agent") = <<>>
              /\ CallsOf("image_generator") = <<>>

\* the run has completed after four calls, all of them failed
C25_Witness ==
    /\ pc = "END"
    /\ Len(calls) = 4
    /\ AllCallsFailed
    /\ state.total_pages = 2
    /\ state.formatted_screenplay # <<>>

(***************************************************************************)
(* The compiled graph exported by src/agent.py for the LangGraph server.   *)
(* It imports the five agent functions the workflow uses and defines its   *)
(* own format_screenplay, generate_character_images and export_to_pdf; it  *)
(* has no title_generator node.                                            *)
(***************************************************************************)
AgentEdge ==
    [logline_agent |-> "outline_agent",
     outline_agent |-> "character_agent",
     character_agent |-> "scene_agent",
     scene_agent |-> "dialogue_agent",
     dialogue_agent |-> "formatter",
     formatter |-> "image_generator",
     image_generator |-> "pdf_exporter",
     pdf_exporter |-> "END"]

\* format_screenplay of agent.py: the author is a constant, written back
agent_format_screenplay(st) ==
    LET scenes == Get(st, "scenes", <<>>)
        title == Get(st, "title", <<"U","N","T","I","T","L","E","D">>)
        author == <<"A","I"," ","G","e","n","e","r","a","t","e","d">>
    IN  [formatted_screenplay |-> format_screenplay(title, author, scenes),
         author |-> author]

AgentReturned(node, update) ==
    /\ state' = Merge(state, update)
    /\ pc' = AgentEdge[node]
    /\ executed' = Append(executed, node)

\* the nodes whose function and edge are those of build_workflow
AgentLoglineNode == LoglineNode

AgentOutlineNode == OutlineNode

AgentCharacterNode == CharacterNode

AgentSceneNode == SceneNode

\* create_dialogue_agent, followed by the formatter
AgentDialogueNode ==
    /\ pc = "dialogue_agent"
    /\ IF KeyError("dialogue_agent", state)
       THEN /\ Raised("dialogue_agent")
            /\ calls' = calls
            /\ outcomes' = <<>>
       ELSE LET n == Len(Get(state, "scenes", <<>>))
            IN  \E os \in [1..n -> Outcomes(DialogueResponses)] :
                   /\ AgentReturned("dialogue_agent", create_dialogue_agent(state, os))
                   /\ calls' = calls \o [i \in 1..n |-> TextCall("dialogue_agent", i, os[i])]
                   /\ outcomes' = [i \in 1..n |->
                          TextOutcome(os[i], IF os[i].ok THEN os[i].resp ELSE <<>>)]
    /\ UNCHANGED <<fsError, harnessVars>>

AgentFormatNode ==
    /\ pc = "formatter"
    /\ AgentReturned("formatter", agent_format_screenplay(state))
    /\ outcomes' = <<>>
    /\ UNCHANGED <<calls, fsError, harnessVars>>

\* generate_character_images and export_to_pdf of agent.py repeat the
\* methods of ScreenplayWorkflow statement by statement
AgentImageNode == ImageNode

AgentExportNode == ExportNode

AgentNext ==
    \/ AgentLoglineNode
    \/ AgentOutlineNode
    \/ AgentCharacterNode
    \/ AgentSceneNode
    \/ AgentDialogueNode
    \/ AgentFormatNode
    \/ AgentImageNode
    \/ AgentExportNode

\* graph.invoke({"idea": idea})
AgentSpec == Init /\ [][AgentNext]_vars

\* what the Title, Format and Export stages of build_workflow return on the
\* fields the first five stages and the Image stage have produced
TitleFormatExport(st) ==
    LET titled == Merge(st, generate_title(st))
        formatted == Merge(titled, workflow_format_screenplay(titled))
    IN  Merge(formatted, export_to_pdf(formatted))

\* C26 as stated: a completed run of agent.py's graph has executed the
\* stages of build_workflow in build_workflow's order, and its final state
\* has every field build_workflow's graph ends with, with the title,
\* author, formatted_screenplay, pdf_path and total_pages that
\* build_workflow's Title, Format and Export stages give for the same
\* logline, scenes and characters.
C26_GraphsEquivalent ==
    pc = "END" =>
        /\ executed = StageOrder
        /\ DOMAIN state = DOMAIN TitleFormatExport(state)
        /\ state = TitleFormatExport(state)

(***************************************************************************)
(* The word wrap as a partition of the words.                              *)
(***************************************************************************)
RECURSIVE WordsFrom(_, _)
\* the words of the lines from the k-th on, read line by line
WordsFrom(lines, k) ==
    IF k > Len(lines) THEN <<>> ELSE Split(lines[k]) \o WordsFrom(lines, k + 1)

NonEmptyLines(lines) == \A k \in 1..Len(lines) : lines[k] # <<>>

\* C27 as stated: for a text with at least one word, every line that
\* format_action and format_dialogue_line produce is non-empty, and the
\* words of the lines read in order are the words of the text in order.
C27_WrapPartitionsWords ==
    /\ (applied = "format_action" /\ Split(arg.text) # <<>>) =>
          /\ NonEmptyLines(LinesOf(result))
          /\ WordsFrom(LinesOf(result), 1) = Split(arg.text)
    /\ (applied = "format_dialogue_line" /\ Split(arg.text) # <<>>) =>
          /\ NonEmptyLines(Unindented(LinesOf(result)))
          /\ WordsFrom(Unindented(LinesOf(result)), 1) = Split(arg.text)

(***************************************************************************)
(* The title the Title stage derives.                                      *)
(***************************************************************************)
\* what one character of the joined words becomes in the title
TitleChar(c) == IF c \in {",", "."} THEN <<>> ELSE <<UpperChar(c)>>

RECURSIVE TitleFrom(_, _)
TitleFrom(text, i) ==
    IF i > Len(text) THEN <<>> ELSE TitleChar(text[i]) \o TitleFrom(text, i + 1)

RECURSIVE FirstWords(_, _, _)
\* the words from the i-th on, n of them at most, with one space between
FirstWords(words, i, n) ==
    IF i > Len(words) \/ n = 0 THEN <<>>
    ELSE words[i] \o (IF i < Len(words) /\ n > 1 THEN <<" ">> ELSE <<>>)
                  \o FirstWords(words, i + 1, n - 1)

\* C28: the Title stage always returns; the title it sets is the first four
\* words of the logline (all of them when there are fewer) with one space
\* between them, every comma and period dropped and the letters upper-cased,
\* the author it sets is AI Generated, and a state with no logline or with
\* the empty logline gets the empty title.
C28_TitleFromLogline ==
    [][pc = "title_generator" =>
          /\ pc' = Edge["title_generator"]
          /\ state'.title = TitleFrom(FirstWords(Split(Get(state, "logline", <<>>)), 1, 4), 1)
          /\ state'.author = <<"A","I"," ","G","e","n","e","r","a","t","e","d">>
          /\ ("logline" \notin DOMAIN state \/ state.logline = <<>>) =>
                state'.title = <<>>]_vars

\* the Title stage called on the seven-word logline: four words are taken,
\* the comma and the period are gone
C28_Witness ==
    /\ executed = <<"title_generator">>
    /\ "logline" \in DOMAIN state
    /\ state.logline = <<"A"," ","c","o","p",","," ","a"," ","c","a","s","e","."," ","O","n","e"," ","l","a","s","t"," ","j","o","b",".">>
    /\ state.title = <<"A"," ","C","O","P"," ","A"," ","C","A","S","E">>
    /\ state.author = <<"A","I"," ","G","e","n","e","r","a","t","e","d">>

=============================================================================
